---- MODULE Spec2Model ----
(***************************************************************************)
(* Blue Prism -> OpenAI bridge (src/bridge/app.py).                        *)
(*                                                                         *)
(* Each request is handled by one handler thread that walks through the    *)
(* Flask dispatch: the validate_request decorator, the route function      *)
(* (analyze or chat): body parsing, field extraction, field validation,    *)
(* the single call of the OpenAI client, and the shaping of the JSON       *)
(* response, or one of the two registered error handlers.                  *)
(***************************************************************************)
EXTENDS Integers, Sequences, FiniteSets, TLC

VARIABLES
    clock,        \* time.time(), whole seconds, shared by all handlers
    pc,           \* pc[r]: position of handler r
    req,          \* req[r]: the HTTP request handler r is serving
    start_time,   \* start_time[r]: local of analyze/chat
    request_id,   \* request_id[r]: local of analyze/chat
    result,       \* result[r]: what client...create() returned or raised
    sent,         \* sent[r]: the calls handler r made to the OpenAI client
    resp          \* resp[r]: the HTTP response handler r produced

vars == <<clock, pc, req, start_time, request_id, result, sent, resp>>

----------------------------------------------------------------------------
(* Bounds of the model                                                     *)

MaxClock == 2
MaxMsgLen == 2
MaxTokens == 2
MaxRetryHint == 1

Reqs == {1, 2}

----------------------------------------------------------------------------
(* JSON / Python values.  t is the Python type, s the text of a str,       *)
(* n the number of a number and the length of a list or dict.              *)

NoVal == [t |-> "absent", s |-> "", n |-> 0]
Null == [t |-> "null", s |-> "", n |-> 0]
Str(s) == [t |-> "str", s |-> s, n |-> 0]
Num(n) == [t |-> "num", s |-> "", n |-> n]
List(n) == [t |-> "list", s |-> "", n |-> n]
Dict(n) == [t |-> "dict", s |-> "", n |-> n]

\* bool(v) of Python, as used by "not v" and "if v"
Truthy(v) ==
    CASE v.t = "str" -> v.s # ""
      [] v.t = "num" -> v.n # 0
      [] v.t \in {"list", "dict"} -> v.n > 0
      [] OTHER -> FALSE

\* whether len(v) is defined; len() of a number raises TypeError
HasLen(v) == v.t \in {"str", "list", "dict"}

\* str(v) as an f-string formats it
Format(v) ==
    CASE v.t = "str" -> v.s
      [] v.t = "num" -> ToString(v.n)
      [] v.t = "null" -> "None"
      [] v.t = "list" -> IF v.n = 0 THEN "[]" ELSE "[...]"
      [] v.t = "dict" -> IF v.n = 0 THEN "{}" ELSE "{...}"
      [] OTHER -> ""

\* Get reading the id under a key the client does not send
Get_wrong_id_key(data, key, default) ==
    IF key = "request_id" \/ data[key] = NoVal THEN default ELSE data[key]

\* data.get(key, default) on the parsed body
Get(data, key, default) == IF data[key] = NoVal THEN default ELSE data[key]

----------------------------------------------------------------------------
(* HTTP requests                                                           *)

Routes == {"analyze", "chat"}

RequestIds == {NoVal, Null, Str("t1")}
TextFields == {NoVal, Null, Str(""), Str("What is AI?"), Num(5)}
MessageFields == {NoVal, Null, List(0), List(1), Dict(1), Num(5)}

NoBody == [kind |-> "missing", request_id |-> NoVal, query |-> NoVal,
           sources |-> NoVal, messages |-> NoVal]

\* the bodies a client can post: nothing, text that is not JSON, JSON that
\* is not an object, or a JSON object with the fields the route reads
Bodies(route) ==
    {[NoBody EXCEPT !.kind = k] : k \in {"missing", "malformed", "nonobject"}}
    \cup
    IF route = "analyze"
    THEN {[NoBody EXCEPT !.kind = "object", !.request_id = i,
                         !.query = q, !.sources = s] :
             i \in RequestIds, q \in TextFields, s \in TextFields}
    ELSE {[NoBody EXCEPT !.kind = "object", !.request_id = i,
                         !.messages = m] :
             i \in RequestIds, m \in MessageFields}

\* is_json: the declared content type is a JSON type
\* oversize: the body is longer than MAX_CONTENT_LENGTH
Requests ==
    UNION {{[route |-> rt, is_json |-> j, oversize |-> o, body |-> b] :
               j \in BOOLEAN, o \in BOOLEAN, b \in Bodies(rt)} : rt \in Routes}

NoRequest == [route |-> "none", is_json |-> FALSE, oversize |-> FALSE,
              body |-> NoBody]

----------------------------------------------------------------------------
(* The external capability: what client.responses.create and               *)
(* client.chat.completions.create return or raise                          *)

\* exception classes of the openai package and their base class
Parent(cls) ==
    CASE cls = "AuthenticationError" -> "APIStatusError"
      [] cls = "RateLimitError" -> "APIStatusError"
      [] cls = "BadRequestError" -> "APIStatusError"
      [] cls = "APIStatusError" -> "APIError"
      [] cls = "APITimeoutError" -> "APIConnectionError"
      [] cls = "APIConnectionError" -> "APIError"
      [] cls = "APIError" -> "OpenAIError"
      [] cls = "OpenAIError" -> "Exception"
      [] cls = "ValueError" -> "Exception"
      [] OTHER -> "BaseException"

RECURSIVE IsInstance(_, _)
IsInstance(cls, base) ==
    IF cls = base THEN TRUE
    ELSE IF cls = "BaseException" THEN FALSE
    ELSE IsInstance(Parent(cls), base)

Raised == {"AuthenticationError", "RateLimitError", "APITimeoutError",
           "BadRequestError", "APIError", "ValueError"}

\* error messages are sequences of words
MsgWords == {"error", "maximum", "Maximum", "context_length"}
Messages == UNION {[1..k -> MsgWords] : k \in 1..MaxMsgLen}

Texts == {"", "AI is..."}
FinishReasons == {"stop", "length"}

NoResult == [kind |-> "none", cls |-> "", msg |-> <<>>,
             has_retry_after |-> FALSE, retry_after |-> 0,
             text |-> "", has_usage |-> FALSE, total_tokens |-> 0,
             finish_reason |-> ""]

\* a returned result: usage is None or carries total_tokens
Returned(route) ==
    {[NoResult EXCEPT !.kind = "ok", !.text = x, !.has_usage = u,
                      !.total_tokens = n, !.finish_reason = f] :
        x \in Texts, u \in BOOLEAN, n \in 0..MaxTokens,
        f \in IF route = "chat" THEN FinishReasons ELSE {""}}

\* a raised exception; only a RateLimitError may carry a retry_after
Failures ==
    {[NoResult EXCEPT !.kind = "raise", !.cls = c, !.msg = m,
                      !.has_retry_after = h, !.retry_after = a] :
        c \in Raised, m \in Messages, h \in BOOLEAN, a \in 0..MaxRetryHint}

Outcomes(route) ==
    {o \in Returned(route) : o.has_usage \/ o.total_tokens = 0}
    \cup
    {e \in Failures : /\ e.has_retry_after => e.cls = "RateLimitError"
                      /\ ~e.has_retry_after => e.retry_after = 0}

----------------------------------------------------------------------------
(* Responses                                                               *)

\* str.lower() of one word
LowerWord(w) ==
    CASE w = "Maximum" -> "maximum"
      [] OTHER -> w

\* str.lower() of a message
Lower(m) == [i \in DOMAIN m |-> LowerWord(m[i])]

\* needle in m
Contains(m, needle) == \E i \in DOMAIN m : m[i] = needle

NoResponse == [status |-> 0, keys |-> {}, request_id |-> NoVal,
               success |-> FALSE, error_code |-> "", error_message |-> <<>>,
               recoverable |-> FALSE, details |-> <<>>,
               analysis |-> "", content |-> "", tokens_used |-> 0,
               finish_reason |-> "", processing_time_ms |-> 0,
               timestamp |-> ""]

get_timestamp(now) == ToString(now) \o "Z"

\* details is <<>> for None, else the sequence of the dict's items
create_error_response(rid, error_code, message, recoverable, details, http_status, now) ==
    [NoResponse EXCEPT
        !.status = http_status,
        !.keys = {"request_id", "success", "error_code", "error_message",
                  "recoverable", "timestamp"}
                 \cup IF Len(details) > 0 THEN {"details"} ELSE {},
        !.request_id = rid,
        !.success = FALSE,
        !.error_code = error_code,
        !.error_message = message,
        !.recoverable = recoverable,
        !.details = details,
        !.timestamp = get_timestamp(now)]

\* @app.errorhandler(413)
request_entity_too_large(now) ==
    create_error_response(Str("unknown"), "PAYLOAD_TOO_LARGE",
        <<"Request body exceeds maximum allowed size (50MB)">>,
        FALSE, <<>>, 413, now)

\* handle_exception marking the failure as recoverable
handle_exception_recoverable(now) ==
    create_error_response(Str("unknown"), "INTERNAL_ERROR",
        <<"An unexpected error occurred">>, TRUE, <<>>, 500, now)

\* @app.errorhandler(Exception)
handle_exception(now) ==
    create_error_response(Str("unknown"), "INTERNAL_ERROR",
        <<"An unexpected error occurred">>, FALSE, <<>>, 500, now)

\* f"auto-{int(time.time())}"
AutoId(now) == Str("auto-" \o ToString(now))

DefaultRetryAfter == 60

\* GetRetryAfter ignoring the hint of the failure
GetRetryAfter_no_hint(e) == DefaultRetryAfter

\* getattr(e, "retry_after", 60)
GetRetryAfter(e) ==
    IF e.has_retry_after THEN e.retry_after ELSE DefaultRetryAfter

\* the input prompt of analyze, as the sequence of its pieces
input_text(query, sources) ==
    (IF Truthy(query)
        THEN <<"Research Query: ", Format(query), "\n\n">> ELSE <<>>)
    \o (IF Truthy(sources)
        THEN <<"Source Content:\n", Format(sources), "\n\n">> ELSE <<>>)
    \o <<"Please analyze the above content and provide a comprehensive research summary.">>

\* the try block of analyze after create() returned
analyze_success(rid, response, start, now) ==
    [NoResponse EXCEPT
        !.status = 200,
        !.keys = {"request_id", "success", "analysis", "tokens_used",
                  "processing_time_ms", "timestamp"},
        !.request_id = rid,
        !.success = TRUE,
        !.analysis = response.text,
        !.tokens_used = IF response.has_usage THEN response.total_tokens
                        ELSE 0,
        !.processing_time_ms = (now - start) * 1000,
        !.timestamp = get_timestamp(now)]

\* analyze_except with the APIError clause ahead of its subclasses
analyze_except_generic_first(rid, e, now) ==
    IF IsInstance(e.cls, "APIError") THEN
        IF \/ Contains(Lower(e.msg), "context_length")
           \/ Contains(Lower(e.msg), "maximum")
        THEN create_error_response(rid, "CONTEXT_LENGTH",
                <<"Content too large for model. Please reduce the source content size.">>,
                FALSE, <<>>, 400, now)
        ELSE create_error_response(rid, "SERVER_ERROR",
                <<"OpenAI API error: ">> \o e.msg, TRUE, <<>>, 502, now)
    ELSE IF IsInstance(e.cls, "AuthenticationError") THEN
        create_error_response(rid, "AUTH_ERROR",
            <<"Invalid OpenAI API key">>, FALSE, <<>>, 401, now)
    ELSE IF IsInstance(e.cls, "RateLimitError") THEN
        create_error_response(rid, "RATE_LIMIT",
            <<"Rate limit exceeded. Retry after ",
              ToString(GetRetryAfter(e)), " seconds.">>,
            TRUE,
            <<[key |-> "retry_after_seconds", value |-> GetRetryAfter(e)]>>,
            429, now)
    ELSE IF IsInstance(e.cls, "APITimeoutError") THEN
        create_error_response(rid, "TIMEOUT",
            <<"Request timed out. Try again with a shorter input.">>,
            TRUE, <<>>, 504, now)
    ELSE
        create_error_response(rid, "BRIDGE_ERROR",
            <<"Internal bridge error: ">> \o e.msg, FALSE, <<>>, 500, now)

\* the except clauses of analyze, in their order
analyze_except(rid, e, now) ==
    IF IsInstance(e.cls, "AuthenticationError") THEN
        create_error_response(rid, "AUTH_ERROR",
            <<"Invalid OpenAI API key">>, FALSE, <<>>, 401, now)
    ELSE IF IsInstance(e.cls, "RateLimitError") THEN
        create_error_response(rid, "RATE_LIMIT",
            <<"Rate limit exceeded. Retry after ",
              ToString(GetRetryAfter(e)), " seconds.">>,
            TRUE,
            <<[key |-> "retry_after_seconds", value |-> GetRetryAfter(e)]>>,
            429, now)
    ELSE IF IsInstance(e.cls, "APITimeoutError") THEN
        create_error_response(rid, "TIMEOUT",
            <<"Request timed out. Try again with a shorter input.">>,
            TRUE, <<>>, 504, now)
    ELSE IF IsInstance(e.cls, "APIError") THEN
        IF \/ Contains(Lower(e.msg), "context_length")
           \/ Contains(Lower(e.msg), "maximum")
        THEN create_error_response(rid, "CONTEXT_LENGTH",
                <<"Content too large for model. Please reduce the source content size.">>,
                FALSE, <<>>, 400, now)
        ELSE create_error_response(rid, "SERVER_ERROR",
                <<"OpenAI API error: ">> \o e.msg, TRUE, <<>>, 502, now)
    ELSE
        create_error_response(rid, "BRIDGE_ERROR",
            <<"Internal bridge error: ">> \o e.msg, FALSE, <<>>, 500, now)

\* chat_success reporting no tokens even when usage is present
chat_success_no_tokens(rid, response, start, now) ==
    [NoResponse EXCEPT
        !.status = 200,
        !.keys = {"request_id", "success", "content", "tokens_used",
                  "finish_reason", "processing_time_ms", "timestamp"},
        !.request_id = rid,
        !.success = TRUE,
        !.content = response.text,
        !.tokens_used = 0,
        !.finish_reason = response.finish_reason,
        !.processing_time_ms = (now - start) * 1000,
        !.timestamp = get_timestamp(now)]

\* the try block of chat after create() returned
chat_success(rid, response, start, now) ==
    [NoResponse EXCEPT
        !.status = 200,
        !.keys = {"request_id", "success", "content", "tokens_used",
                  "finish_reason", "processing_time_ms", "timestamp"},
        !.request_id = rid,
        !.success = TRUE,
        !.content = response.text,
        !.tokens_used = IF response.has_usage THEN response.total_tokens
                        ELSE 0,
        !.finish_reason = response.finish_reason,
        !.processing_time_ms = (now - start) * 1000,
        !.timestamp = get_timestamp(now)]

\* chat_except answering a timeout with 408 Request Timeout
chat_except_timeout_408(rid, e, now) ==
    IF IsInstance(e.cls, "AuthenticationError") THEN
        create_error_response(rid, "AUTH_ERROR",
            <<"Invalid OpenAI API key">>, FALSE, <<>>, 401, now)
    ELSE IF IsInstance(e.cls, "RateLimitError") THEN
        create_error_response(rid, "RATE_LIMIT",
            <<"Rate limit exceeded. Retry after ",
              ToString(GetRetryAfter(e)), " seconds.">>,
            TRUE,
            <<[key |-> "retry_after_seconds", value |-> GetRetryAfter(e)]>>,
            429, now)
    ELSE IF IsInstance(e.cls, "APITimeoutError") THEN
        create_error_response(rid, "TIMEOUT",
            <<"Request timed out. Try again with a shorter input.">>,
            TRUE, <<>>, 408, now)
    ELSE IF IsInstance(e.cls, "APIError") THEN
        create_error_response(rid, "SERVER_ERROR",
            <<"OpenAI API error: ">> \o e.msg, TRUE, <<>>, 502, now)
    ELSE
        create_error_response(rid, "BRIDGE_ERROR",
            <<"Internal bridge error: ">> \o e.msg, FALSE, <<>>, 500, now)

\* the except clauses of chat, in their order
chat_except(rid, e, now) ==
    IF IsInstance(e.cls, "AuthenticationError") THEN
        create_error_response(rid, "AUTH_ERROR",
            <<"Invalid OpenAI API key">>, FALSE, <<>>, 401, now)
    ELSE IF IsInstance(e.cls, "RateLimitError") THEN
        create_error_response(rid, "RATE_LIMIT",
            <<"Rate limit exceeded. Retry after ",
              ToString(GetRetryAfter(e)), " seconds.">>,
            TRUE,
            <<[key |-> "retry_after_seconds", value |-> GetRetryAfter(e)]>>,
            429, now)
    ELSE IF IsInstance(e.cls, "APITimeoutError") THEN
        create_error_response(rid, "TIMEOUT",
            <<"Request timed out. Try again with a shorter input.">>,
            TRUE, <<>>, 504, now)
    ELSE IF IsInstance(e.cls, "APIError") THEN
        create_error_response(rid, "SERVER_ERROR",
            <<"OpenAI API error: ">> \o e.msg, TRUE, <<>>, 502, now)
    ELSE
        create_error_response(rid, "BRIDGE_ERROR",
            <<"Internal bridge error: ">> \o e.msg, FALSE, <<>>, 500, now)

----------------------------------------------------------------------------
(* The handlers, step by step                                              *)

\* Return building the response in one slot that all handlers share
Return_shared_slot(r, response) ==
    /\ resp' = [x \in Reqs |-> response]
    /\ pc' = [pc EXCEPT ![r] = "done"]

\* the handler returns resp: the response is complete
Return(r, response) ==
    /\ resp' = [resp EXCEPT ![r] = response]
    /\ pc' = [pc EXCEPT ![r] = "done"]

\* time passes
Tick ==
    /\ clock < MaxClock
    /\ clock' = clock + 1
    /\ UNCHANGED <<pc, req, start_time, request_id, result, sent, resp>>

\* a POST to /analyze or /chat, one of pool, arrives and is dispatched to
\* handler r
ReceiveFrom(r, pool) ==
    /\ pc[r] = "idle"
    /\ \E q \in pool : req' = [req EXCEPT ![r] = q]
    /\ pc' = [pc EXCEPT ![r] = "guard"]
    /\ UNCHANGED <<clock, start_time, request_id, result, sent, resp>>

\* a POST to /analyze or /chat arrives and is dispatched to handler r
Receive(r) == ReceiveFrom(r, Requests)

\* a request that matches no route or no method of a route: its body is
\* never read
Unmatched == [NoRequest EXCEPT !.route = "unmatched",
                               !.body = [NoBody EXCEPT !.kind = "unread"]]

\* the dispatch of a request that matches no route raises NotFound or
\* MethodNotAllowed, which the handler registered for Exception answers
no_route(r) ==
    /\ pc[r] = "idle"
    /\ req' = [req EXCEPT ![r] = Unmatched]
    /\ Return(r, handle_exception(clock))
    /\ UNCHANGED <<clock, start_time, request_id, result, sent>>

\* decorated_function: the content type is checked, the body is not read
validate_request(r) ==
    /\ pc[r] = "guard"
    /\ IF ~req[r].is_json
       THEN Return(r, create_error_response(Str("unknown"),
                "VALIDATION_ERROR", <<"Request must be JSON">>, FALSE, <<>>,
                400, clock))
       ELSE /\ pc' = [pc EXCEPT ![r] = "parse"]
            /\ UNCHANGED resp
    /\ UNCHANGED <<clock, req, start_time, request_id, result, sent>>

\* start_time = time.time(); data = request.get_json().  Reading a body
\* over MAX_CONTENT_LENGTH raises 413, a body that does not parse raises
\* BadRequest; both are raised outside the try block.
get_json(r) ==
    /\ pc[r] = "parse"
    /\ start_time' = [start_time EXCEPT ![r] = clock]
    /\ IF req[r].oversize
       THEN Return(r, request_entity_too_large(clock))
       ELSE IF req[r].body.kind \in {"missing", "malformed"}
       THEN Return(r, handle_exception(clock))
       ELSE /\ pc' = [pc EXCEPT ![r] = "extract"]
            /\ UNCHANGED resp
    /\ UNCHANGED <<clock, req, request_id, result, sent>>

\* analyze, from the extraction of the fields to the validation.  data.get
\* on a body that is not an object raises AttributeError outside the try.
analyze_validate(r) ==
    /\ pc[r] = "extract"
    /\ req[r].route = "analyze"
    /\ LET data == req[r].body
           rid == Get(data, "request_id", AutoId(clock))
           query == Get(data, "query", Str(""))
           sources == Get(data, "sources", Str(""))
       IN  IF data.kind # "object"
           THEN /\ Return(r, handle_exception(clock))
                /\ UNCHANGED request_id
           ELSE /\ request_id' = [request_id EXCEPT ![r] = rid]
                /\ IF ~Truthy(query) /\ ~Truthy(sources)
                   THEN Return(r, create_error_response(rid,
                            "VALIDATION_ERROR",
                            <<"At least one of 'query' or 'sources' is required">>,
                            FALSE, <<>>, 400, clock))
                   ELSE /\ pc' = [pc EXCEPT ![r] = "call"]
                        /\ UNCHANGED resp
    /\ UNCHANGED <<clock, req, start_time, result, sent>>

\* client.responses.create(...): the one call, which returns or raises one
\* of outcomes
analyze_create(r, outcomes) ==
    /\ pc[r] = "call"
    /\ req[r].route = "analyze"
    /\ LET data == req[r].body
       IN  sent' = [sent EXCEPT ![r] = Append(@,
                [api |-> "responses.create",
                 input |-> input_text(Get(data, "query", Str("")),
                                      Get(data, "sources", Str(""))),
                 messages |-> NoVal])]
    /\ \E o \in outcomes : result' = [result EXCEPT ![r] = o]
    /\ pc' = [pc EXCEPT ![r] = "respond"]
    /\ UNCHANGED <<clock, req, start_time, request_id, resp>>

\* client.responses.create(...): the one call, which returns or raises
analyze_call(r) == analyze_create(r, Outcomes("analyze"))

\* the rest of the try block of analyze, or the matching except clause
analyze_respond(r) ==
    /\ pc[r] = "respond"
    /\ req[r].route = "analyze"
    /\ IF result[r].kind = "ok"
       THEN Return(r, analyze_success(request_id[r], result[r],
                                      start_time[r], clock))
       ELSE Return(r, analyze_except(request_id[r], result[r], clock))
    /\ UNCHANGED <<clock, req, start_time, request_id, result, sent>>

\* chat, from the extraction of the fields to the logging of len(messages),
\* which raises TypeError outside the try when messages has no length
chat_validate(r) ==
    /\ pc[r] = "extract"
    /\ req[r].route = "chat"
    /\ LET data == req[r].body
           rid == Get(data, "request_id", AutoId(clock))
           messages == Get(data, "messages", List(0))
       IN  IF data.kind # "object"
           THEN /\ Return(r, handle_exception(clock))
                /\ UNCHANGED request_id
           ELSE /\ request_id' = [request_id EXCEPT ![r] = rid]
                /\ IF ~Truthy(messages)
                   THEN Return(r, create_error_response(rid,
                            "VALIDATION_ERROR",
                            <<"'messages' array is required">>,
                            FALSE, <<>>, 400, clock))
                   ELSE IF ~HasLen(messages)
                   THEN Return(r, handle_exception(clock))
                   ELSE /\ pc' = [pc EXCEPT ![r] = "call"]
                        /\ UNCHANGED resp
    /\ UNCHANGED <<clock, req, start_time, result, sent>>

\* client.chat.completions.create(...): the one call, which returns or
\* raises one of outcomes
chat_create(r, outcomes) ==
    /\ pc[r] = "call"
    /\ req[r].route = "chat"
    /\ sent' = [sent EXCEPT ![r] = Append(@,
                [api |-> "chat.completions.create",
                 input |-> <<>>,
                 messages |-> Get(req[r].body, "messages", List(0))])]
    /\ \E o \in outcomes : result' = [result EXCEPT ![r] = o]
    /\ pc' = [pc EXCEPT ![r] = "respond"]
    /\ UNCHANGED <<clock, req, start_time, request_id, resp>>

\* client.chat.completions.create(...): the one call
chat_call(r) == chat_create(r, Outcomes("chat"))

\* the rest of the try block of chat, or the matching except clause
chat_respond(r) ==
    /\ pc[r] = "respond"
    /\ req[r].route = "chat"
    /\ IF result[r].kind = "ok"
       THEN Return(r, chat_success(request_id[r], result[r],
                                   start_time[r], clock))
       ELSE Return(r, chat_except(request_id[r], result[r], clock))
    /\ UNCHANGED <<clock, req, start_time, request_id, result, sent>>

\* the response is sent; the handler's locals are gone and it can serve
\* the next request
Finish(r) ==
    /\ pc[r] = "done"
    /\ pc' = [pc EXCEPT ![r] = "idle"]
    /\ req' = [req EXCEPT ![r] = NoRequest]
    /\ start_time' = [start_time EXCEPT ![r] = 0]
    /\ request_id' = [request_id EXCEPT ![r] = NoVal]
    /\ result' = [result EXCEPT ![r] = NoResult]
    /\ sent' = [sent EXCEPT ![r] = <<>>]
    /\ resp' = [resp EXCEPT ![r] = NoResponse]
    /\ UNCHANGED clock

\* one request at a time: handler 1 serves, handler 2 gets no connection
Init ==
    /\ clock = 0
    /\ pc = [r \in Reqs |-> IF r = 1 THEN "idle" ELSE "off"]
    /\ req = [r \in Reqs |-> NoRequest]
    /\ start_time = [r \in Reqs |-> 0]
    /\ request_id = [r \in Reqs |-> NoVal]
    /\ result = [r \in Reqs |-> NoResult]
    /\ sent = [r \in Reqs |-> <<>>]
    /\ resp = [r \in Reqs |-> NoResponse]

Next ==
    \/ Tick
    \/ \E r \in Reqs : Receive(r)
    \/ \E r \in Reqs : no_route(r)
    \/ \E r \in Reqs : validate_request(r)
    \/ \E r \in Reqs : get_json(r)
    \/ \E r \in Reqs : analyze_validate(r)
    \/ \E r \in Reqs : analyze_call(r)
    \/ \E r \in Reqs : analyze_respond(r)
    \/ \E r \in Reqs : chat_validate(r)
    \/ \E r \in Reqs : chat_call(r)
    \/ \E r \in Reqs : chat_respond(r)
    \/ \E r \in Reqs : Finish(r)

Spec == Init /\ [][Next]_vars

----------------------------------------------------------------------------
(* Two requests handled at the same time, as the threaded server does.     *)
(* The handlers are the same actions; the requests and the outcomes of the *)
(* external call are drawn from one representative of each path.           *)

ConcRequests ==
    {q \in Requests :
        /\ ~q.oversize
        /\ q.body.request_id \in {NoVal, Str("t1")}
        /\ \/ /\ q.route = "analyze"
              /\ q.is_json
              /\ q.body.kind = "object"
              /\ q.body.sources = NoVal
              /\ \/ q.body.query = Str("What is AI?")
                 \/ q.body.query = NoVal /\ q.body.request_id = Str("t1")
           \/ /\ q.route = "chat"
              /\ q.body.request_id = NoVal
              /\ \/ /\ q.is_json
                    /\ q.body.kind = "object"
                    /\ q.body.messages \in {List(1), Num(5)}
                 \/ ~q.is_json /\ q.body.kind = "malformed"}

ConcOutcomes(route) ==
    {o \in Outcomes(route) :
        \/ /\ o.kind = "ok"
           /\ o.text = "AI is..."
           /\ o.has_usage
           /\ o.total_tokens = MaxTokens
           /\ o.finish_reason \in {"", "stop"}
        \/ /\ o.kind = "raise"
           /\ ~o.has_retry_after
           /\ \/ o.cls \in {"AuthenticationError", "RateLimitError",
                            "ValueError"} /\ o.msg = <<"error">>
              \/ o.cls = "APIError" /\ o.msg = <<"maximum">>}

\* every handler thread of the server accepts connections
InitConc ==
    /\ clock = 0
    /\ pc = [r \in Reqs |-> "idle"]
    /\ req = [r \in Reqs |-> NoRequest]
    /\ start_time = [r \in Reqs |-> 0]
    /\ request_id = [r \in Reqs |-> NoVal]
    /\ result = [r \in Reqs |-> NoResult]
    /\ sent = [r \in Reqs |-> <<>>]
    /\ resp = [r \in Reqs |-> NoResponse]

NextConc ==
    \/ Tick
    \/ \E r \in Reqs : ReceiveFrom(r, ConcRequests)
    \/ \E r \in Reqs : no_route(r)
    \/ \E r \in Reqs : validate_request(r)
    \/ \E r \in Reqs : get_json(r)
    \/ \E r \in Reqs : analyze_validate(r)
    \/ \E r \in Reqs : analyze_create(r, ConcOutcomes("analyze"))
    \/ \E r \in Reqs : analyze_respond(r)
    \/ \E r \in Reqs : chat_validate(r)
    \/ \E r \in Reqs : chat_create(r, ConcOutcomes("chat"))
    \/ \E r \in Reqs : chat_respond(r)
    \/ \E r \in Reqs : Finish(r)

SpecConc == InitConc /\ [][NextConc]_vars

----------------------------------------------------------------------------
(* Vocabulary of the properties                                            *)

\* handler r has produced its response
Done(r) == pc[r] = "done"

\* handler r made its call and the call raised
CallFailed(r) == Done(r) /\ Len(sent[r]) > 0 /\ result[r].kind = "raise"

\* handler r made its call and the call returned
CallReturned(r) == Done(r) /\ Len(sent[r]) > 0 /\ result[r].kind = "ok"

\* the failure kinds of the error taxonomy, by the class that was raised
FailureKind(cls) ==
    CASE cls = "AuthenticationError" -> "authentication"
      [] cls = "RateLimitError" -> "rate-limit"
      [] cls = "APITimeoutError" -> "timeout"
      [] cls \in {"APIError", "BadRequestError"} -> "provider"
      [] OTHER -> "other"

\* the lower-cased message contains "context_length" or "maximum"
ContextMarker(m) ==
    \E i \in DOMAIN m : m[i] \in {"context_length", "maximum", "Maximum"}

NonEmptyString(v) == v.t = "str" /\ v.s # ""
NonEmptySequence(v) == v.t = "list" /\ v.n > 0

\* the body was read and parsed as JSON
ParsedBody(q) ==
    q.is_json /\ ~q.oversize /\ q.body.kind \in {"object", "nonobject"}

\* the client supplied a request_id
SuppliedId(q) == q.body.kind = "object" /\ q.body.request_id # NoVal

\* an id of the form auto-<integer>
IsAutoId(v) == \E k \in 0..MaxClock : v = Str("auto-" \o ToString(k))

Code(r, status, error_code, recoverable) ==
    /\ resp[r].status = status
    /\ resp[r].success = FALSE
    /\ resp[r].error_code = error_code
    /\ resp[r].recoverable = recoverable

----------------------------------------------------------------------------
(* C1: when the single external call of a validated request fails, the     *)
(* response is fixed by the first matching failure kind: authentication    *)
(* 401 AUTH_ERROR not recoverable, rate-limit 429 RATE_LIMIT recoverable,  *)
(* timeout 504 TIMEOUT recoverable, generic provider error without a       *)
(* context-length marker 502 SERVER_ERROR recoverable, anything else 500   *)
(* BRIDGE_ERROR not recoverable, whatever the message text contains.       *)
C1_FailureTaxonomy ==
    \A r \in Reqs : CallFailed(r) =>
        LET e == result[r]
            kind == FailureKind(e.cls)
        IN  /\ kind = "authentication" => Code(r, 401, "AUTH_ERROR", FALSE)
            /\ kind = "rate-limit" => Code(r, 429, "RATE_LIMIT", TRUE)
            /\ kind = "timeout" => Code(r, 504, "TIMEOUT", TRUE)
            /\ kind = "provider" /\ ~ContextMarker(e.msg)
                  => Code(r, 502, "SERVER_ERROR", TRUE)
            /\ kind = "other" => Code(r, 500, "BRIDGE_ERROR", FALSE)
            /\ kind \in {"authentication", "rate-limit", "timeout"}
                  => resp[r].error_code \notin {"CONTEXT_LENGTH",
                                                "SERVER_ERROR"}

\* an authentication failure whose message says "maximum" is answered 401
C1_Witness ==
    \E r \in Reqs :
        /\ CallFailed(r)
        /\ req[r].route = "analyze"
        /\ result[r].cls = "AuthenticationError"
        /\ ContextMarker(result[r].msg)
        /\ resp[r].status = 401

(* C2: when the external call of a validated request returns, the          *)
(* response is 200 with success=true, the payload field (analysis on       *)
(* /analyze, content on /chat) is the returned text, tokens_used is the    *)
(* provider's total_tokens when usage is present and 0 when it is absent,  *)
(* and on /chat finish_reason is the provider's finish reason.             *)
C2_SuccessRoundTrip ==
    \A r \in Reqs : CallReturned(r) =>
        LET o == result[r] IN
        /\ resp[r].status = 200
        /\ resp[r].success = TRUE
        /\ "tokens_used" \in resp[r].keys
        /\ resp[r].tokens_used = IF o.has_usage THEN o.total_tokens ELSE 0
        /\ req[r].route = "analyze" =>
              "analysis" \in resp[r].keys /\ resp[r].analysis = o.text
        /\ req[r].route = "chat" =>
              /\ "content" \in resp[r].keys /\ resp[r].content = o.text
              /\ "finish_reason" \in resp[r].keys
              /\ resp[r].finish_reason = o.finish_reason

\* a chat call that returned text, usage of MaxTokens tokens and "length"
C2_Witness ==
    \E r \in Reqs :
        /\ CallReturned(r)
        /\ req[r].route = "chat"
        /\ result[r].has_usage
        /\ result[r].total_tokens = MaxTokens
        /\ result[r].text = "AI is..."
        /\ resp[r].tokens_used = MaxTokens
        /\ resp[r].finish_reason = "length"

(* C3, as claimed: every response, on every path, carries the request_id  *)
(* supplied in the body or, when none was supplied, one generated id of    *)
(* the form auto-<integer>.                                                *)
C3_Original ==
    \A r \in Reqs : Done(r) =>
        IF SuppliedId(req[r])
        THEN resp[r].request_id = req[r].body.request_id
        ELSE IsAutoId(resp[r].request_id)

\* the response was built by the route function itself, not by the JSON
\* guard nor by one of the two registered error handlers
BuiltByRoute(r) ==
    /\ req[r].is_json
    /\ resp[r].error_code \notin {"INTERNAL_ERROR", "PAYLOAD_TOO_LARGE"}

(* C3, amended: every response built by the route function itself (field   *)
(* validation failure, success, each classified external failure,          *)
(* BRIDGE_ERROR) carries the request_id supplied in the body or, when none *)
(* was supplied, the one auto-<integer> id generated when the fields were  *)
(* extracted; the responses of the JSON guard, of the 413 handler and of   *)
(* the top-level exception handler carry request_id "unknown".             *)
C3_RequestIdCarried ==
    \A r \in Reqs : Done(r) =>
        IF BuiltByRoute(r)
        THEN /\ resp[r].request_id = request_id[r]
             /\ SuppliedId(req[r]) =>
                   resp[r].request_id = req[r].body.request_id
             /\ ~SuppliedId(req[r]) => IsAutoId(resp[r].request_id)
        ELSE resp[r].request_id = Str("unknown")

\* an id generated at second 0 is still the id of a failure response
\* built at a later second
C3_Witness ==
    \E r \in Reqs :
        /\ CallFailed(r)
        /\ ~SuppliedId(req[r])
        /\ resp[r].request_id = Str("auto-0")
        /\ resp[r].timestamp # get_timestamp(0)

(* C4: every POST to /analyze or /chat whose body is not valid JSON,       *)
(* whatever its declared content type and also when the body is missing,   *)
(* is answered 400 VALIDATION_ERROR with request_id "unknown", and the     *)
(* external capability is not called.                                      *)
C4_InvalidJsonRejected ==
    \A r \in Reqs :
        Done(r) /\ req[r].body.kind \in {"missing", "malformed"} =>
            /\ Code(r, 400, "VALIDATION_ERROR", FALSE)
            /\ resp[r].request_id = Str("unknown")
            /\ sent[r] = <<>>

(* C5: every /analyze request with a parsed JSON body is answered 400      *)
(* VALIDATION_ERROR without a call of the external capability unless       *)
(* query or sources is a non-empty string.                                 *)
C5_AnalyzeRequiresText ==
    \A r \in Reqs :
        /\ Done(r)
        /\ req[r].route = "analyze"
        /\ ParsedBody(req[r])
        /\ ~NonEmptyString(req[r].body.query)
        /\ ~NonEmptyString(req[r].body.sources)
        => /\ Code(r, 400, "VALIDATION_ERROR", FALSE)
           /\ sent[r] = <<>>

(* C6: every /chat request with a parsed JSON body is answered 400         *)
(* VALIDATION_ERROR without a call of the external capability unless       *)
(* messages is a non-empty sequence.                                       *)
C6_ChatRequiresMessages ==
    \A r \in Reqs :
        /\ Done(r)
        /\ req[r].route = "chat"
        /\ ParsedBody(req[r])
        /\ ~NonEmptySequence(req[r].body.messages)
        => /\ Code(r, 400, "VALIDATION_ERROR", FALSE)
           /\ sent[r] = <<>>

\* the request satisfies the validation rules of its route
PassesValidation(q) ==
    /\ ParsedBody(q)
    /\ q.body.kind = "object"
    /\ q.route = "analyze" =>
          NonEmptyString(q.body.query) \/ NonEmptyString(q.body.sources)
    /\ q.route = "chat" => NonEmptySequence(q.body.messages)

(* C7: in handling one request the external capability is called exactly  *)
(* once when the request passes validation and not at all when it fails    *)
(* validation; a failed call is not repeated.                              *)
C7_ExactlyOneCall ==
    \A r \in Reqs :
        /\ Len(sent[r]) <= 1
        /\ Done(r) =>
              Len(sent[r]) = IF PassesValidation(req[r]) THEN 1 ELSE 0

(* C8: on /analyze and on /chat alike, a generic provider error whose      *)
(* lower-cased message contains "context_length" or "maximum" is answered  *)
(* 400 CONTEXT_LENGTH not recoverable; any other generic provider error is *)
(* answered 502 SERVER_ERROR with the raw provider message.                *)
C8_ContextLength ==
    \A r \in Reqs :
        CallFailed(r) /\ FailureKind(result[r].cls) = "provider" =>
            IF ContextMarker(result[r].msg)
            THEN Code(r, 400, "CONTEXT_LENGTH", FALSE)
            ELSE /\ Code(r, 502, "SERVER_ERROR", TRUE)
                 /\ resp[r].error_message
                       = <<"OpenAI API error: ">> \o result[r].msg

(* C9, as claimed: every response of POST /chat has a status in            *)
(* {200, 400, 401, 429, 500, 502}.                                         *)
C9_Original ==
    \A r \in Reqs : Done(r) /\ req[r].route = "chat" =>
        resp[r].status \in {200, 400, 401, 429, 500, 502}

(* C9, amended: every response of POST /chat has a status in               *)
(* {200, 400, 401, 413, 429, 500, 502, 504}: a timeout of the external     *)
(* call is answered 504 and a body over the size limit 413.                *)
C9_ChatStatuses ==
    \A r \in Reqs : Done(r) /\ req[r].route = "chat" =>
        resp[r].status \in {200, 400, 401, 413, 429, 500, 502, 504}

\* a chat call that timed out is answered 504
C9_Witness ==
    \E r \in Reqs :
        /\ CallFailed(r)
        /\ req[r].route = "chat"
        /\ result[r].cls = "APITimeoutError"
        /\ resp[r].status = 504

(* C10: after a rate-limit failure of the external call the response has   *)
(* a details field whose retry_after_seconds is the hint the failure       *)
(* carries, and 60 when the failure carries none.                          *)
C10_RetryAfter ==
    \A r \in Reqs :
        CallFailed(r) /\ FailureKind(result[r].cls) = "rate-limit" =>
            /\ "details" \in resp[r].keys
            /\ resp[r].details =
                  <<[key |-> "retry_after_seconds",
                     value |-> IF result[r].has_retry_after
                               THEN result[r].retry_after ELSE 60]>>

\* a rate-limit failure carrying the hint 0 is answered with details
\* holding retry_after_seconds 0
C10_Witness ==
    \E r \in Reqs :
        /\ CallFailed(r)
        /\ result[r].cls = "RateLimitError"
        /\ result[r].has_retry_after
        /\ result[r].retry_after = 0
        /\ "details" \in resp[r].keys
        /\ resp[r].details[1].value = 0

\* the rows of the error table: error_code, HTTP status, recoverable
ErrorTable ==
    {<<"VALIDATION_ERROR", 400, FALSE>>, <<"AUTH_ERROR", 401, FALSE>>,
     <<"RATE_LIMIT", 429, TRUE>>, <<"TIMEOUT", 504, TRUE>>,
     <<"CONTEXT_LENGTH", 400, FALSE>>, <<"SERVER_ERROR", 502, TRUE>>,
     <<"BRIDGE_ERROR", 500, FALSE>>, <<"PAYLOAD_TOO_LARGE", 413, FALSE>>,
     <<"INTERNAL_ERROR", 500, FALSE>>}

EnvelopeKeys == {"request_id", "success", "error_code", "error_message",
                 "recoverable", "timestamp"}

\* the handling of q fails outside the try block of its route function,
\* other than by the size limit: no route matches, the body declared as
\* JSON does not parse or is not an object, or messages has no length
UncaughtFailure(q) ==
    \/ q.route \notin Routes
    \/ /\ q.is_json
       /\ ~q.oversize
       /\ \/ q.body.kind \in {"missing", "malformed", "nonobject"}
          \/ /\ q.route = "chat"
             /\ Truthy(q.body.messages)
             /\ ~HasLen(q.body.messages)

(* C11: every request is answered with a response; every failure response *)
(* is a complete error envelope (request_id, success=false, error_code,    *)
(* error_message, recoverable, timestamp) whose error_code, status and     *)
(* recoverable flag form one row of the error table; a failure that is not *)
(* caught inside a handler is answered 500 INTERNAL_ERROR with request_id  *)
(* "unknown".                                                              *)
C11_ErrorEnvelope ==
    \A r \in Reqs : Done(r) =>
        /\ resp[r].status # 0
        /\ resp[r].success <=> resp[r].status = 200
        /\ ~resp[r].success =>
              /\ EnvelopeKeys \subseteq resp[r].keys
              /\ resp[r].error_message # <<>>
              /\ <<resp[r].error_code, resp[r].status, resp[r].recoverable>>
                    \in ErrorTable
        /\ UncaughtFailure(req[r]) =>
              /\ Code(r, 500, "INTERNAL_ERROR", FALSE)
              /\ resp[r].request_id = Str("unknown")

\* the TypeError of len(messages) on a number, raised outside the try block
\* of chat, is answered with the INTERNAL_ERROR envelope
C11_Witness ==
    \E r \in Reqs :
        /\ Done(r)
        /\ req[r].route = "chat"
        /\ req[r].body.messages = Num(5)
        /\ resp[r].error_code = "INTERNAL_ERROR"
        /\ EnvelopeKeys \subseteq resp[r].keys

\* the response to request q when it is handled alone, from its arrival to
\* its response, with the clock reading t and the outcome o of the external
\* call, should the handling reach the call
HandledAlone(q, o, t) ==
    IF q.route \notin Routes THEN handle_exception(t)
    ELSE IF ~q.is_json THEN
        create_error_response(Str("unknown"), "VALIDATION_ERROR",
            <<"Request must be JSON">>, FALSE, <<>>, 400, t)
    ELSE IF q.oversize THEN request_entity_too_large(t)
    ELSE IF q.body.kind # "object" THEN handle_exception(t)
    ELSE
        LET rid == Get(q.body, "request_id", AutoId(t))
            query == Get(q.body, "query", Str(""))
            sources == Get(q.body, "sources", Str(""))
            messages == Get(q.body, "messages", List(0))
        IN  IF q.route = "analyze" THEN
                IF ~Truthy(query) /\ ~Truthy(sources) THEN
                    create_error_response(rid, "VALIDATION_ERROR",
                        <<"At least one of 'query' or 'sources' is required">>,
                        FALSE, <<>>, 400, t)
                ELSE IF o.kind = "ok" THEN analyze_success(rid, o, t, t)
                ELSE analyze_except(rid, o, t)
            ELSE
                IF ~Truthy(messages) THEN
                    create_error_response(rid, "VALIDATION_ERROR",
                        <<"'messages' array is required">>,
                        FALSE, <<>>, 400, t)
                ELSE IF ~HasLen(messages) THEN handle_exception(t)
                ELSE IF o.kind = "ok" THEN chat_success(rid, o, t, t)
                ELSE chat_except(rid, o, t)

\* what the claim compares: status, request_id, error_code or payload
Visible(rs) ==
    [status |-> rs.status, request_id |-> rs.request_id,
     success |-> rs.success, error_code |-> rs.error_code,
     analysis |-> rs.analysis, content |-> rs.content]

\* the response of every handler is the one its request gets when it is
\* handled alone with the same outcome of the external call
SameAsAlone ==
    \A r \in Reqs : Done(r) =>
        \E t \in 0..MaxClock :
            Visible(resp[r]) = Visible(HandledAlone(req[r], result[r], t))

\* a step of handler r leaves the clock and all that belongs to the other
\* handlers as it is
OwnStateOnly ==
    \A r \in Reqs : pc'[r] # pc[r] =>
        /\ clock' = clock
        /\ \A x \in Reqs \ {r} :
              /\ pc'[x] = pc[x]
              /\ req'[x] = req[x]
              /\ start_time'[x] = start_time[x]
              /\ request_id'[x] = request_id[x]
              /\ result'[x] = result[x]
              /\ sent'[x] = sent[x]
              /\ resp'[x] = resp[x]

(* C12: requests handled at the same time are independent: under every    *)
(* interleaving of the steps of two handlers each response (status,        *)
(* request_id, error_code or payload) is the one the request gets when it  *)
(* is handled alone with the same outcome of its external call, and no     *)
(* step of a handler writes the state of another handler or the clock.     *)
C12_Independent == []SameAsAlone /\ [][OwnStateOnly]_vars

\* two requests in flight at once, both answered and not yet sent: a 200
\* on /analyze next to a RATE_LIMIT on /chat
C12_Witness ==
    /\ Done(1)
    /\ Done(2)
    /\ req[1].route = "analyze"
    /\ resp[1].status = 200
    /\ req[2].route = "chat"
    /\ resp[2].error_code = "RATE_LIMIT"
    /\ resp[1].request_id = resp[2].request_id

====
